---- MODULE Spec2Model ----
(***************************************************************************)
(* Model of app.py: the CSV -> Moodle user synchronisation job.            *)
(*                                                                         *)
(* A job is started by api_moodle_start, run by one worker thread          *)
(* (_process_job) that talks to the remote Moodle web service, and read by *)
(* stream consumers (api_moodle_stream.gen) through the job's queue.       *)
(*                                                                         *)
(* Python strings are sequences of one-character strings, so that lower(), *)
(* strip(), the regular expressions and the suffix arithmetic are computed *)
(* as the code computes them.  Status texts are sequences of tokens.       *)
(***************************************************************************)
EXTENDS Integers, Sequences, FiniteSets, TLC

VARIABLES
    JOBS,      \* job_id -> [q, done, result_rows]            (app.py:276)
    worker,    \* job_id -> locals of the thread running _process_job
    streams,   \* consumer -> [pc, job_id, delivered, taken, keepalives] of gen()
    moodle,    \* the remote directory: [users, enrolled, nextid]
    calls,     \* the requests ws_post has sent, in order
    sent,      \* job_id -> every message q.put() was given, in order
    reply,     \* the last response of api_moodle_start / _stream / _result
    preview    \* the locals of a call of make_usernames

vars == <<JOBS, worker, streams, moodle, calls, sent, reply, preview>>

----------------------------------------------------------------------------
(* Bounds of the model *)

\* longest batch given to api_moodle_start
MaxRows == 2
\* the probe loop of next_available_username is followed up to this suffix
\* when the remote keeps answering "taken" without the directory saying so
MaxSuffix == 1
\* keep-alive comments one consumer is followed through
MaxKeepalives == 1

(* Program constants *)
MOODLE_ROLE_ID == 5
MaxUsernameLen == 100

----------------------------------------------------------------------------
(* Strings *)

Range(s) == {s[i] : i \in 1..Len(s)}

LowerLetters == {"a", "b", "n", "p", "s", "x", "y"}
UpperLetters == {"A", "B"}
DigitChars == <<"0", "1", "2", "3", "4", "5", "6", "7", "8", "9">>
Whitespace == {" "}

\* a JSON number given where a string is expected (truthy, has no .lower())
NUMBER == <<"#number">>
IsStr(v) == v # NUMBER

\* str.lower()
LowerChar(c) == IF c = "A" THEN "a" ELSE IF c = "B" THEN "b" ELSE c
lower(s) == [i \in 1..Len(s) |-> LowerChar(s[i])]

\* str.strip()
RECURSIVE lstrip(_)
lstrip(s) == IF s # <<>> /\ Head(s) \in Whitespace THEN lstrip(Tail(s)) ELSE s
RECURSIVE rstrip(_)
rstrip(s) ==
    IF s # <<>> /\ s[Len(s)] \in Whitespace
    THEN rstrip(SubSeq(s, 1, Len(s) - 1)) ELSE s
strip(s) == rstrip(lstrip(s))

\* str(n) for n >= 0, as in f"{base}{suffix}"
RECURSIVE str(_)
str(n) == IF n < 10 THEN <<DigitChars[n + 1]>>
          ELSE str(n \div 10) \o <<DigitChars[(n % 10) + 1]>>

\* int(x) of a run of digits
DigitValue(c) == CHOOSE d \in 0..9 : DigitChars[d + 1] = c
RECURSIVE int(_)
int(s) == IF s = <<>> THEN 0
          ELSE 10 * int(SubSeq(s, 1, Len(s) - 1)) + DigitValue(s[Len(s)])

IsDigit(c) == c \in Range(DigitChars)

\* re.fullmatch(r"[a-z0-9._-]+", un)
UsernameChars == LowerLetters \cup Range(DigitChars) \cup {".", "_", "-"}
UsernameCharsOk(un) == un # <<>> /\ \A i \in 1..Len(un) : un[i] \in UsernameChars

\* EMAIL_RE = ^[^@\s]+@[^@\s]+\.[^@\s]+$
EMAIL_RE(em) ==
    /\ \A i \in 1..Len(em) : em[i] \notin Whitespace
    /\ Cardinality({i \in 1..Len(em) : em[i] = "@"}) = 1
    /\ \E p \in 2..Len(em) :
         /\ em[p] = "@"
         /\ \E d \in (p + 2)..(Len(em) - 1) : em[d] = "."

\* re.findall(r"\d+", value): the maximal runs of digits, left to right
RECURSIVE DigitRuns(_, _)
DigitRuns(s, cur) ==
    IF s = <<>> THEN (IF cur = <<>> THEN <<>> ELSE <<cur>>)
    ELSE IF IsDigit(Head(s)) THEN DigitRuns(Tail(s), Append(cur, Head(s)))
    ELSE (IF cur = <<>> THEN <<>> ELSE <<cur>>) \o DigitRuns(Tail(s), <<>>)

\* the seen/out loop of parse_course_ids
RECURSIVE Dedup(_, _)
Dedup(ids, out) ==
    IF ids = <<>> THEN out
    ELSE IF Head(ids) \in Range(out) THEN Dedup(Tail(ids), out)
    ELSE Dedup(Tail(ids), Append(out, Head(ids)))

parse_course_ids(value) ==
    LET runs == DigitRuns(value, <<>>)
        ids == [i \in 1..Len(runs) |-> int(runs[i])]
    IN  Dedup(ids, <<>>)

----------------------------------------------------------------------------
(* Rows *)

E == <<>>

\* a row as api_moodle_start receives it (the columns of FIELDNAMES)
Row(fn, ln, em, un, cids, status) ==
    [FirstName |-> fn, LastName |-> ln, EmailAddress |-> em, Username |-> un,
     Password |-> E, CourseIDs |-> cids,
     Status |-> status, EnrolStatus |-> E, SuspendStatus |-> E,
     ExistingFirstName |-> E, ExistingLastName |-> E, ExistingUsername |-> E,
     ExistingEmail |-> E, ExistingID |-> E]

Name_a == <<"A">>
Name_b == <<"B">>
Email_new == <<"n", "@", "x", ".", "y">>
Email_pad == <<"p", "@", "x", ".", "y">>
Email_sus == <<"s", "@", "x", ".", "y">>
User_ab == <<"a", "b">>

\* valid, unknown email; its username is taken remotely; course "4"
RowNew == Row(Name_a, Name_b, Email_new, User_ab, <<"4">>, E)
\* valid, the email of a suspended remote account; courses "4,4"
RowExisting == Row(Name_a, Name_b, Email_sus, User_ab, <<"4", ",", "4">>, E)
\* the same account; courses "3 4 3", the first of which it is enrolled in
RowCourses == Row(Name_a, Name_b, Email_sus, User_ab, <<"3", " ", "4", " ", "3">>, E)
\* empty email
RowNoEmail == Row(Name_a, Name_b, E, User_ab, <<"4">>, E)
\* every column empty
RowBlank == Row(E, E, E, E, E, E)
\* valid after strip().lower(): username " Ab", no course
RowPadded == Row(Name_a, Name_b, Email_pad, <<" ", "A", "b">>, E, E)
\* the Username column holds a JSON number
RowNumber == Row(Name_a, Name_b, Email_new, NUMBER, E, E)

\* an email without a dot after the @
RowBadEmail == Row(Name_a, Name_b, <<"n", "@", "x">>, User_ab, E, E)

RowInputs ==
    {RowNew, RowExisting, RowNoEmail, RowBlank, RowPadded, RowNumber, RowBadEmail}

IsBlank(r) == /\ r.FirstName = E /\ r.LastName = E /\ r.EmailAddress = E
              /\ r.Username = E /\ r.CourseIDs = E

RECURSIVE SeqsUpTo(_, _)
SeqsUpTo(S, n) ==
    IF n = 0 THEN {<<>>}
    ELSE LET shorter == SeqsUpTo(S, n - 1)
         IN  shorter \cup {Append(b, r) : b \in {x \in shorter : Len(x) = n - 1}, r \in S}

\* valid, but submitted with a Status and an Enrol Status already: a row that
\* an earlier run has finished; its username is "Ab1"
RowFinished ==
    [Row(Name_a, Name_b, Email_pad, <<"A", "b", "1">>, <<"4">>, <<"already exist">>)
        EXCEPT !.EnrolStatus = <<"4", ": ", "Enrolled">>]

\* the row lists with a finished row
FinishedBatches ==
    {b \in {<<RowFinished>>, <<RowFinished, RowNew>>, <<RowNew, RowFinished>>} :
        Len(b) <= MaxRows}

\* the non-empty row lists a client can post
Batches ==
    (SeqsUpTo(RowInputs, MaxRows) \ {<<>>}) \cup {<<RowCourses>>} \cup FinishedBatches

----------------------------------------------------------------------------
(* validate_row *)

validate_row(u) ==
    LET un == lower(strip(u.Username))
        fn == strip(u.FirstName)
        ln == strip(u.LastName)
        em == lower(strip(u.EmailAddress))
    IN  IF un = E \/ fn = E \/ ln = E \/ em = E THEN <<"Missing required field(s)">>
        ELSE IF ~EMAIL_RE(em) THEN <<"Invalid email format">>
        ELSE IF Len(un) > MaxUsernameLen THEN <<"Username too long (>100)">>
        ELSE IF ~UsernameCharsOk(un) THEN <<"Username has disallowed characters">>
        ELSE E

----------------------------------------------------------------------------
(* The remote directory and the Remote Directory Client *)

WS_CREATE_USERS == "core_user_create_users"
WS_GET_USERS_BY_FIELD == "core_user_get_users_by_field"
WS_GET_USER_COURSES == "core_enrol_get_users_courses"
WS_ENROL_MANUAL == "enrol_manual_enrol_users"
WS_UPDATE_USERS == "core_user_update_users"

None == <<"#None">>

\* the account the directory holds before any job runs: suspended, username
\* "Ab", enrolled in course 3
SuspendedUser ==
    [id |-> 7, username |-> <<"A", "b">>, email |-> Email_sus,
     firstname |-> Name_a, lastname |-> Name_b, suspended |-> 1]

InitMoodle == [users |-> {SuspendedUser}, enrolled |-> {<<7, 3>>}, nextid |-> 8]

\* one request handed to ws_post for row `row` of job j (row 0: the batch), and
\* how it ended: "ok", "failed" (an exception map, an unexpected shape or a
\* RequestException), "raised" (another exception), "-" where not recorded
Call(fn, j, row, what, resp) ==
    [fn |-> fn, job |-> j, row |-> row, what |-> what, resp |-> resp]

\* what the web service answers to core_user_get_users_by_field when the
\* request gets through
DirectoryLookup(m, field, values) ==
    {x \in m.users : \E v \in Range(values) :
        IF field = "email" THEN lower(x.email) = lower(v)
        ELSE lower(x.username) = lower(v)}

\* moodle_get_users_by_field: the list on success, [] on RequestException or
\* when the answer is not a list
moodle_get_users_by_field(m, field, values, resp) ==
    IF resp = "list" THEN DirectoryLookup(m, field, values) ELSE {}

\* a faulty moodle_username_exists that compares the names as they are
moodle_username_exists_exact(m, username, resp) ==
    IF resp = "malformed" THEN TRUE
    ELSE \E x \in moodle_get_users_by_field(m, "username", <<username>>, resp) :
            x.username = username

\* moodle_username_exists: resp is "list" (the request got through), "error"
\* (RequestException inside moodle_get_users_by_field) or "malformed" (a record
\* whose username is no string: x.get("username","").lower() raises)
moodle_username_exists(m, username, resp) ==
    IF resp = "malformed" THEN TRUE
    ELSE \E x \in moodle_get_users_by_field(m, "username", <<username>>, resp) :
            lower(x.username) = lower(username)

ProbeResponses == {"list", "error", "malformed"}

\* f"{base}{suffix}", and base itself for suffix 0
Candidate(base, suffix) == IF suffix = 0 THEN base ELSE base \o str(suffix)

\* a faulty note that names the base as the adjusted name and the other way round
RenameNote_swapped(base, suffix) ==
    IF suffix = 0 THEN None
    ELSE <<"username adjusted to '">> \o base
            \o <<"' (base '">> \o Candidate(base, suffix) \o <<"' exists)">>

\* the note next_available_username returns with an adjusted name
RenameNote(base, suffix) ==
    IF suffix = 0 THEN None
    ELSE <<"username adjusted to '">> \o Candidate(base, suffix)
            \o <<"' (base '">> \o base \o <<"' exists)">>

----------------------------------------------------------------------------
(* Messages on a job's queue: sse(event, payload), and the comment line *)

Msg(event) ==
    [event |-> event, index |-> -1, row |-> RowBlank, processed |-> -1,
     total |-> -1, percent |-> -1, count |-> -1]

StageMsg(n) == [Msg("stage") EXCEPT !.count = n]
\* a faulty row_update that numbers the rows from 1
RowUpdateMsg_one_based(idx, u) == [Msg("row_update") EXCEPT !.index = idx + 1, !.row = u]
RowUpdateMsg(idx, u) == [Msg("row_update") EXCEPT !.index = idx, !.row = u]
ProgressMsg(processed, total, pct) ==
    [Msg("progress") EXCEPT !.processed = processed, !.total = total, !.percent = pct]
DoneMsg(total) == [Msg("done") EXCEPT !.percent = 100, !.total = total]
Comment == Msg(":")

----------------------------------------------------------------------------
(* api_moodle_start *)

JobIds == {"j1"}

\* the locals of _process_job when the thread starts
NewWorker(rows_in) ==
    [pc |-> "prepare", rows_in |-> rows_in, rows |-> <<>>,
     rename_note |-> <<>>, used_local |-> {}, idx |-> 1, suffix |-> 0,
     cand |-> None, probe |-> "-", lookups_ok |-> TRUE,
     existing_by_email |-> {}, processed |-> 0,
     course_ids |-> <<>>, enrol_msgs |-> <<>>, user_id |-> -1, variant |-> 1]

\* an HTTP response: the endpoint, the status code, and the job id or the rows
\* of its body ("error" bodies are told apart by the code)
Reply(endpoint, code, job_id, rows) ==
    [endpoint |-> endpoint, code |-> code, job_id |-> job_id, rows |-> rows]

NoReply == Reply("-", 0, "-", <<>>)

\* no call of make_usernames is in progress
NoPreview == [pc |-> "idle", rows |-> <<>>, i |-> 0, out |-> <<>>, bases |-> <<>>,
              counts |-> <<>>, used |-> {}]

Init ==
    /\ JOBS = <<>>
    /\ worker = <<>>
    /\ sent = <<>>
    /\ streams = <<>>
    /\ moodle = InitMoodle
    /\ calls = <<>>
    /\ reply = NoReply
    /\ preview = NoPreview

\* api_moodle_start with a non-empty list: a fresh id, the job record, the thread
Start(job_id, rows) ==
    /\ job_id \notin DOMAIN JOBS
    /\ rows # <<>>
    /\ JOBS' = JOBS @@ (job_id :> [q |-> <<>>, done |-> FALSE, result_rows |-> <<>>])
    /\ worker' = worker @@ (job_id :> NewWorker(rows))
    /\ sent' = sent @@ (job_id :> <<>>)
    /\ reply' = Reply("start", 200, job_id, <<>>)
    /\ UNCHANGED <<preview, streams, moodle, calls>>

\* the "rows" of a request body that api_moodle_start refuses: the key is
\* missing, the list is empty, or the value is no list
RefusedBodies == {None, <<>>, NUMBER}

\* isinstance(rows, list), of the values a body is given here
IsList(rows) == rows # NUMBER

\* a faulty api_moodle_start that registers the job before it looks at the rows
StartRejected_registers(body_rows) ==
    /\ body_rows \in RefusedBodies
    /\ \E job_id \in {"j1", "j2"} \ DOMAIN JOBS :
        JOBS' = JOBS @@ (job_id :> [q |-> <<>>, done |-> FALSE, result_rows |-> <<>>])
    /\ reply' = Reply("start", 400, "-", <<>>)
    /\ UNCHANGED <<preview, worker, sent, streams, moodle, calls>>

\* api_moodle_start, lines 431-434: data.get("rows", []) is no list or is empty
StartRejected(body_rows) ==
    /\ LET rows == IF body_rows = None THEN <<>> ELSE body_rows
       IN  ~IsList(rows) \/ rows = <<>>
    /\ reply' = Reply("start", 400, "-", <<>>)
    /\ UNCHANGED <<preview, JOBS, worker, sent, streams, moodle, calls>>

----------------------------------------------------------------------------
(* _process_job *)

W(j) == worker[j]
Running(j, pc) == j \in DOMAIN worker /\ worker[j].pc = pc

Put(j, m) ==
    /\ JOBS' = [JOBS EXCEPT ![j].q = Append(@, m)]
    /\ sent' = [sent EXCEPT ![j] = Append(@, m)]

\* a faulty preparation that sets the Status from validate_row alone
PrepareRow_resets_status(u) ==
    LET v == [u EXCEPT !.Username = lower(u.Username)]
        err == validate_row(v)
    IN  IF err # E THEN [v EXCEPT !.Status = <<"Client-side validation: ">> \o err]
        ELSE [v EXCEPT !.Status = E]

\* lines 288-296 for one row
PrepareRow(u) ==
    LET v == [u EXCEPT !.Username = lower(u.Username)]
        err == validate_row(v)
    IN  IF err # E THEN [v EXCEPT !.Status = <<"Client-side validation: ">> \o err]
        ELSE v

\* (u.get("Username") or "").lower() raises on a value that is no string
PrepareRaises(rows_in) == \E i \in 1..Len(rows_in) : ~IsStr(rows_in[i].Username)

\* a faulty pass that does not skip the rows that already have a Status
NextToReconcile_every_row(rows, from) == from

\* the first row at or after `from` that reconciliation does not skip
NextToReconcile(rows, from) ==
    IF \E i \in from..Len(rows) : rows[i].Status = E
    THEN CHOOSE i \in from..Len(rows) :
            rows[i].Status = E /\ \A k \in from..(i - 1) : rows[k].Status # E
    ELSE Len(rows) + 1

\* lines 286-299: an exception here is caught by nothing and ends the thread
Prepare(j) ==
    /\ Running(j, "prepare")
    /\ IF PrepareRaises(W(j).rows_in)
       THEN worker' = [worker EXCEPT ![j].pc = "crashed"]
       ELSE LET rows == [i \in 1..Len(W(j).rows_in) |-> PrepareRow(W(j).rows_in[i])]
                first == NextToReconcile(rows, 1)
            IN  worker' = [worker EXCEPT ![j] =
                    [@ EXCEPT !.rows = rows,
                              !.rename_note = [i \in 1..Len(rows) |-> None],
                              !.idx = first, !.suffix = 0,
                              !.pc = IF first > Len(rows) THEN "stage" ELSE "reconcile"]]
    /\ UNCHANGED <<reply, preview, JOBS, sent, streams, moodle, calls>>

\* one turn of the loop of next_available_username for row idx (lines 181-188),
\* and lines 305-308 when it returns; lookups_ok records that every lookup of
\* the call so far got through
Probe(j, resp) ==
    /\ Running(j, "reconcile")
    /\ resp = "malformed" => W(j).suffix < MaxSuffix
    /\ LET w == W(j)
           base == w.rows[w.idx].Username
           candidate == Candidate(base, w.suffix)
           conflict_local == candidate \in w.used_local
           conflict_remote == moodle_username_exists(moodle, candidate, resp)
           next == NextToReconcile(w.rows, w.idx + 1)
           ok == (w.suffix = 0 \/ w.lookups_ok) /\ resp = "list"
       IN  /\ calls' = Append(calls, Call(WS_GET_USERS_BY_FIELD, j, w.idx, candidate, "-"))
           /\ IF ~conflict_local /\ ~conflict_remote
              THEN worker' = [worker EXCEPT ![j] =
                    [@ EXCEPT !.used_local = @ \cup {candidate},
                              !.rows[w.idx].Username = candidate,
                              !.rename_note[w.idx] = RenameNote(base, w.suffix),
                              !.cand = candidate, !.probe = resp, !.lookups_ok = ok,
                              !.idx = next, !.suffix = 0,
                              !.pc = IF next > Len(w.rows) THEN "stage" ELSE "reconcile"]]
              ELSE worker' = [worker EXCEPT ![j] =
                    [@ EXCEPT !.suffix = @ + 1, !.cand = None, !.probe = "-",
                              !.lookups_ok = ok]]
    /\ UNCHANGED <<reply, preview, JOBS, sent, streams, moodle>>

\* a faulty line 311 that keeps the rows that already have a Status
emails_to_check_unfiltered(rows) == [i \in 1..Len(rows) |-> rows[i].EmailAddress]

\* line 311
emails_to_check(rows) ==
    LET keep == {i \in 1..Len(rows) : rows[i].Status = E}
        F[i \in 0..Len(rows)] ==
            IF i = 0 THEN <<>>
            ELSE IF i \in keep THEN Append(F[i - 1], rows[i].EmailAddress) ELSE F[i - 1]
    IN  F[Len(rows)]

\* line 312
PutStage(j) ==
    /\ Running(j, "stage")
    /\ Put(j, StageMsg(Len(emails_to_check(W(j).rows))))
    /\ worker' = [worker EXCEPT ![j] =
            [@ EXCEPT !.cand = None, !.probe = "-", !.lookups_ok = TRUE,
                      !.pc = "prefetch"]]
    /\ UNCHANGED <<reply, preview, streams, moodle, calls>>

\* lines 313-317
Prefetch(j, resp) ==
    /\ Running(j, "prefetch")
    /\ LET emails == emails_to_check(W(j).rows)
       IN  /\ calls' = Append(calls, Call(WS_GET_USERS_BY_FIELD, j, 0, emails, "-"))
           /\ worker' = [worker EXCEPT ![j] =
                [@ EXCEPT !.existing_by_email =
                              moodle_get_users_by_field(moodle, "email", emails, resp),
                          !.processed = 0, !.idx = 1, !.pc = "row"]]
    /\ UNCHANGED <<reply, preview, JOBS, sent, streams, moodle>>

\* the row the loop at line 320 is at
CurrentRow(j) == W(j).rows[W(j).idx]

\* existing_by_email.get(u["Email Address"].lower()), None as {}
ExistingFor(w, u) ==
    {x \in w.existing_by_email : lower(x.email) = lower(u.EmailAddress)}

\* lines 322-324: a row that already has a Status
SkipRow(j) ==
    /\ Running(j, "row")
    /\ CurrentRow(j).Status # E
    /\ worker' = [worker EXCEPT ![j].pc = "row_update"]
    /\ UNCHANGED <<reply, preview, JOBS, sent, streams, moodle, calls>>

UpdateResponses == {"ok", "exception", "network"}

\* a faulty unsuspend_user_if_needed that does not look at the answer
unsuspend_unchecked(user_record, resp) ==
    IF user_record.suspended = 1 THEN <<"Unsuspended">> ELSE <<"Active">>

\* unsuspend_user_if_needed: the text it returns
unsuspend_user_if_needed(user_record, resp) ==
    IF user_record.suspended = 1
    THEN CASE resp = "ok" -> <<"Unsuspended">>
           [] resp = "exception" -> <<"Unsuspend failed: ", "errorcode", ": ", "message">>
           [] OTHER -> <<"Unsuspend request error: ", "e">>
    ELSE <<"Active">>

\* lines 327-344: the email is in the prefetched map
ExistingUser(j, resp) ==
    /\ Running(j, "row")
    /\ CurrentRow(j).Status = E
    /\ ExistingFor(W(j), CurrentRow(j)) # {}
    /\ LET w == W(j)
           u == CurrentRow(j)
           existing == CHOOSE x \in ExistingFor(w, u) : TRUE
           asked == existing.suspended = 1
       IN  /\ ~asked => resp = "ok"
           /\ calls' = IF asked
                THEN Append(calls, Call(WS_UPDATE_USERS, j, w.idx, <<existing.id, 0>>,
                                   IF resp = "ok" THEN "ok" ELSE "failed"))
                ELSE calls
           /\ moodle' = IF asked /\ resp = "ok"
                THEN [moodle EXCEPT !.users =
                        {IF x.id = existing.id THEN [x EXCEPT !.suspended = 0] ELSE x
                            : x \in @}]
                ELSE moodle
           /\ worker' = [worker EXCEPT ![j] =
                [@ EXCEPT !.course_ids = parse_course_ids(strip(u.CourseIDs)),
                          !.enrol_msgs = <<>>,
                          !.user_id = existing.id,
                          !.rows[w.idx] =
                              [u EXCEPT !.ExistingFirstName = existing.firstname,
                                        !.ExistingLastName = existing.lastname,
                                        !.ExistingUsername = existing.username,
                                        !.ExistingEmail = existing.email,
                                        !.ExistingID = str(existing.id),
                                        !.Status = <<"already exist">>,
                                        !.SuspendStatus =
                                            unsuspend_user_if_needed(existing, resp)],
                          !.pc = "enrol"]]
    /\ UNCHANGED <<reply, preview, JOBS, sent, streams>>

\* strong_password(): 16 characters, one of each class among them
strong_password ==
    <<"a", "A", "1", "!", "x", "y", "b", "B", "2", "3", "n", "p", "s", "4", "5", "6">>

CreateResponses == {"created", "exception", "unexpected", "network", "badid"}

\* a faulty _attempt_create_single that numbers the variants from 0
CreateMsg_from_zero(resp, id, variant) ==
    CASE resp = "created" ->
            <<"Created (id=">> \o str(id) \o <<") via variant ">> \o str(variant - 1)
                \o (IF variant \in {1, 2} THEN <<" (password emailed by Moodle)">> ELSE <<>>)
      [] resp = "exception" -> <<"errorcode", ": ", "message", " [variant ">> \o str(variant - 1) \o <<"]">>
      [] resp = "unexpected" -> <<"Unexpected: ", "data", " [variant ">> \o str(variant - 1) \o <<"]">>
      [] OTHER -> <<"Network error: ", "e", " [variant ">> \o str(variant - 1) \o <<"]">>

\* the text _attempt_create_single returns
CreateMsg(resp, id, variant) ==
    CASE resp = "created" ->
            <<"Created (id=">> \o str(id) \o <<") via variant ">> \o str(variant)
                \o (IF variant \in {1, 2} THEN <<" (password emailed by Moodle)">> ELSE <<>>)
      [] resp = "exception" -> <<"errorcode", ": ", "message", " [variant ">> \o str(variant) \o <<"]">>
      [] resp = "unexpected" -> <<"Unexpected: ", "data", " [variant ">> \o str(variant) \o <<"]">>
      [] OTHER -> <<"Network error: ", "e", " [variant ">> \o str(variant) \o <<"]">>

\* a faulty loop that goes on after a variant succeeded
LastAttempt_no_break(resp, variant) == variant = 4

\* lines 348 and 351: the loop ends after variant 4, or at `if ok: break`
LastAttempt(resp, variant) == resp = "created" \/ variant = 4

\* one turn of the loop at lines 348-351 (_attempt_create_single), with lines
\* 327-330 before the first and lines 352-356 after the last; "badid" is a
\* created record whose id int() rejects, which raises into line 369
CreateAttempt(j, resp) ==
    /\ \/ Running(j, "create")
       \/ /\ Running(j, "row")
          /\ CurrentRow(j).Status = E
          /\ ExistingFor(W(j), CurrentRow(j)) = {}
    /\ LET w == W(j)
           variant == IF w.pc = "row" THEN 1 ELSE w.variant
           u0 == CurrentRow(j)
           u == IF variant \in {1, 2} THEN u0 ELSE [u0 EXCEPT !.Password = strong_password]
           msg == CreateMsg(resp, moodle.nextid, variant)
           note == w.rename_note[w.idx]
           last == LastAttempt(resp, variant)
           begun == [w EXCEPT !.course_ids = IF w.pc = "row"
                                              THEN parse_course_ids(strip(u.CourseIDs))
                                              ELSE @,
                              !.enrol_msgs = <<>>]
       IN  /\ calls' = Append(calls, Call(WS_CREATE_USERS, j, w.idx, <<variant>>,
                    CASE resp = "created" -> "ok" [] resp = "badid" -> "raised"
                      [] OTHER -> "failed"))
           /\ moodle' = IF resp = "created"
                THEN [moodle EXCEPT
                        !.users = @ \cup {[id |-> moodle.nextid, username |-> u.Username,
                                           email |-> u.EmailAddress,
                                           firstname |-> u.FirstName,
                                           lastname |-> u.LastName, suspended |-> 0]},
                        !.nextid = @ + 1]
                ELSE moodle
           /\ worker' = [worker EXCEPT ![j] =
                IF resp = "badid"
                THEN [begun EXCEPT !.rows[w.idx] = [u EXCEPT !.Status = <<"Server error: ", "e">>],
                                   !.pc = "row_update"]
                ELSE IF ~last
                THEN [begun EXCEPT !.rows[w.idx] = u, !.variant = variant + 1,
                                   !.pc = "create"]
                ELSE [begun EXCEPT
                        !.rows[w.idx] =
                            [u EXCEPT !.Status =
                                          IF resp = "created" /\ note # None
                                          THEN msg \o <<" - ">> \o note ELSE msg,
                                      !.SuspendStatus =
                                          IF resp = "created" THEN <<"Active">> ELSE @],
                        !.user_id = IF resp = "created" THEN moodle.nextid ELSE -1,
                        !.variant = 1,
                        !.pc = "enrol"]]
    /\ UNCHANGED <<reply, preview, JOBS, sent, streams>>

\* " | ".join(enrol_msgs)
RECURSIVE Join(_)
Join(msgs) ==
    IF msgs = <<>> THEN <<>>
    ELSE IF Len(msgs) = 1 THEN msgs[1]
    ELSE msgs[1] \o <<" | ">> \o Join(Tail(msgs))

\* lines 359-362 and 367: nothing to enrol into, or nobody to enrol
EnrolSkip(j) ==
    /\ Running(j, "enrol")
    /\ W(j).course_ids = <<>> \/ W(j).user_id = -1
    /\ LET w == W(j)
           msg == IF w.course_ids = <<>> THEN <<"No course id provided">>
                  ELSE <<"No user id for enrolment">>
       IN  worker' = [worker EXCEPT ![j] =
                [@ EXCEPT !.rows[w.idx].EnrolStatus = msg, !.pc = "row_update"]]
    /\ UNCHANGED <<reply, preview, JOBS, sent, streams, moodle, calls>>

LookupResponses == {"list", "error"}
EnrolResponses == {"enrolled", "exception", "network"}

\* a faulty is_user_enrolled that never finds the course
is_user_enrolled_never(m, userid, courseid, resp) == FALSE

\* is_user_enrolled: False on any exception
is_user_enrolled(m, userid, courseid, resp) ==
    resp = "list" /\ <<userid, courseid>> \in m.enrolled

\* the text enrol_user returns
enrol_user(m, userid, courseid, lookup, resp) ==
    IF is_user_enrolled(m, userid, courseid, lookup) THEN <<"Already enrolled">>
    ELSE CASE resp = "enrolled" -> <<"Enrolled">>
           [] resp = "exception" -> <<"errorcode", ": ", "message">>
           [] OTHER -> <<"Enrol request error: ", "e">>

\* the requests enrol_user sends
EnrolCalls(m, j, row, userid, courseid, lookup, resp) ==
    <<Call(WS_GET_USER_COURSES, j, row, <<userid, courseid>>,
           IF lookup = "list" THEN "ok" ELSE "failed")>>
    \o (IF is_user_enrolled(m, userid, courseid, lookup) THEN <<>>
        ELSE <<Call(WS_ENROL_MANUAL, j, row, <<MOODLE_ROLE_ID, userid, courseid>>,
                    IF resp = "enrolled" THEN "ok" ELSE "failed")>>)

\* one turn of the loop at lines 364-365, and line 367 after the last
EnrolCourse(j, lookup, resp) ==
    /\ Running(j, "enrol")
    /\ W(j).course_ids # <<>> /\ W(j).user_id # -1
    /\ LET w == W(j)
           cid == w.course_ids[Len(w.enrol_msgs) + 1]
           already == is_user_enrolled(moodle, w.user_id, cid, lookup)
           msgs == Append(w.enrol_msgs,
                          str(cid) \o <<": ">> \o enrol_user(moodle, w.user_id, cid, lookup, resp))
           last == Len(msgs) = Len(w.course_ids)
       IN  /\ already => resp = "enrolled"
           /\ calls' = calls \o EnrolCalls(moodle, j, w.idx, w.user_id, cid, lookup, resp)
           /\ moodle' = IF ~already /\ resp = "enrolled"
                THEN [moodle EXCEPT !.enrolled = @ \cup {<<w.user_id, cid>>}]
                ELSE moodle
           /\ worker' = [worker EXCEPT ![j] =
                IF last
                THEN [@ EXCEPT !.enrol_msgs = msgs,
                               !.rows[w.idx].EnrolStatus = Join(msgs),
                               !.pc = "row_update"]
                ELSE [@ EXCEPT !.enrol_msgs = msgs]]
    /\ UNCHANGED <<reply, preview, JOBS, sent, streams>>

\* lines 373-375
PutRowUpdate(j) ==
    /\ Running(j, "row_update")
    /\ Put(j, RowUpdateMsg(W(j).idx - 1, CurrentRow(j)))
    /\ worker' = [worker EXCEPT ![j] =
            [@ EXCEPT !.rename_note[W(j).idx] = None, !.pc = "progress"]]
    /\ UNCHANGED <<reply, preview, streams, moodle, calls>>

\* a faulty percentage computed from the 0-based row index
Percent_of_index(processed, total) ==
    ((processed - 1) * 100) \div (IF total > 1 THEN total ELSE 1)

\* int(processed * 100 / max(total, 1))
Percent(processed, total) ==
    (processed * 100) \div (IF total > 1 THEN total ELSE 1)

\* lines 378-380, and the step of the loop at line 320
PutProgress(j) ==
    /\ Running(j, "progress")
    /\ LET w == W(j)
           total == Len(w.rows)
           processed == w.processed + 1
       IN  /\ Put(j, ProgressMsg(processed, total, Percent(processed, total)))
           /\ worker' = [worker EXCEPT ![j] =
                [@ EXCEPT !.processed = processed, !.idx = @ + 1,
                          !.pc = IF w.idx = total THEN "result" ELSE "row"]]
    /\ UNCHANGED <<reply, preview, streams, moodle, calls>>

\* a faulty line 383 that publishes the rows as they were submitted
SetResult_submitted(j) ==
    /\ Running(j, "result")
    /\ JOBS' = [JOBS EXCEPT ![j].result_rows = W(j).rows_in]
    /\ worker' = [worker EXCEPT ![j].pc = "set_done"]
    /\ UNCHANGED <<reply, preview, sent, streams, moodle, calls>>

\* line 383
SetResult(j) ==
    /\ Running(j, "result")
    /\ JOBS' = [JOBS EXCEPT ![j].result_rows = W(j).rows]
    /\ worker' = [worker EXCEPT ![j].pc = "set_done"]
    /\ UNCHANGED <<reply, preview, sent, streams, moodle, calls>>

\* line 384
SetDone(j) ==
    /\ Running(j, "set_done")
    /\ JOBS' = [JOBS EXCEPT ![j].done = TRUE]
    /\ worker' = [worker EXCEPT ![j].pc = "put_done"]
    /\ UNCHANGED <<reply, preview, sent, streams, moodle, calls>>

\* line 385
PutDone(j) ==
    /\ Running(j, "put_done")
    /\ Put(j, DoneMsg(Len(W(j).rows)))
    /\ worker' = [worker EXCEPT ![j].pc = "sentinel"]
    /\ UNCHANGED <<reply, preview, streams, moodle, calls>>

\* line 387
PutSentinel(j) ==
    /\ Running(j, "sentinel")
    /\ Put(j, Comment)
    /\ worker' = [worker EXCEPT ![j].pc = "finished"]
    /\ UNCHANGED <<reply, preview, streams, moodle, calls>>

\* the thread of one job
ProcessJob(j) ==
    \/ Prepare(j)
    \/ \E resp \in ProbeResponses : Probe(j, resp)
    \/ PutStage(j)
    \/ \E resp \in LookupResponses : Prefetch(j, resp)
    \/ SkipRow(j)
    \/ \E resp \in UpdateResponses : ExistingUser(j, resp)
    \/ \E resp \in CreateResponses : CreateAttempt(j, resp)
    \/ EnrolSkip(j)
    \/ \E lookup \in LookupResponses, resp \in EnrolResponses : EnrolCourse(j, lookup, resp)
    \/ PutRowUpdate(j)
    \/ PutProgress(j)
    \/ SetResult(j)
    \/ SetDone(j)
    \/ PutDone(j)
    \/ PutSentinel(j)

NextWorker ==
    \/ \E job_id \in JobIds, rows \in Batches : Start(job_id, rows)
    \/ \E j \in JobIds : ProcessJob(j)

SpecWorker == Init /\ [][NextWorker]_vars

----------------------------------------------------------------------------
(* api_moodle_stream and api_moodle_result *)

Consumers == {"c1"}

NotFound == <<"Unknown job", "404">>

Subscribed(c) == c \in DOMAIN streams

\* lines 444-452: the job is known; gen() yields the retry hint and hello.
\* taken[k] is the place in sent[job_id] of the message delivered[k] was taken
\* from the queue as, and 0 for what gen() yields by itself.
Subscribe(c, job_id) ==
    /\ ~Subscribed(c)
    /\ job_id \in DOMAIN JOBS
    /\ streams' = streams @@
            (c :> [pc |-> "get", job_id |-> job_id,
                   delivered |-> <<Msg("retry"), Msg("hello")>>, taken |-> <<0, 0>>,
                   keepalives |-> 0])
    /\ UNCHANGED <<reply, preview, JOBS, worker, sent, moodle, calls>>

\* the place in sent[j] of the oldest message in the queue of j
HeadPlace(j) == Len(sent[j]) - Len(JOBS[j].q) + 1

\* a faulty line 455 that reads the oldest message and leaves it in the queue
Get_peek(c) ==
    /\ Subscribed(c) /\ streams[c].pc = "get"
    /\ LET j == streams[c].job_id
       IN  /\ JOBS[j].q # <<>>
           /\ streams' = [streams EXCEPT ![c] =
                [@ EXCEPT !.delivered = Append(@, Head(JOBS[j].q)),
                          !.taken = Append(@, HeadPlace(j)), !.pc = "check"]]
    /\ UNCHANGED <<reply, preview, JOBS, worker, sent, moodle, calls>>

\* lines 455-456: q.get() hands over the oldest message, which is yielded
Get(c) ==
    /\ Subscribed(c) /\ streams[c].pc = "get"
    /\ LET j == streams[c].job_id
       IN  /\ JOBS[j].q # <<>>
           /\ JOBS' = [JOBS EXCEPT ![j].q = Tail(@)]
           /\ streams' = [streams EXCEPT ![c] =
                [@ EXCEPT !.delivered = Append(@, Head(JOBS[j].q)),
                          !.taken = Append(@, HeadPlace(j)), !.pc = "check"]]
    /\ UNCHANGED <<reply, preview, worker, sent, moodle, calls>>

\* lines 458-459: stop if the job is done and the queue drained
Check(c) ==
    /\ Subscribed(c) /\ streams[c].pc = "check"
    /\ LET j == streams[c].job_id
       IN  streams' = [streams EXCEPT ![c].pc =
                IF JOBS[j].done /\ JOBS[j].q = <<>> THEN "ended" ELSE "get"]
    /\ UNCHANGED <<reply, preview, JOBS, worker, sent, moodle, calls>>

\* lines 460-462: q.get() timed out on an empty queue; a keep-alive comment
KeepAlive(c) ==
    /\ Subscribed(c) /\ streams[c].pc = "get"
    /\ JOBS[streams[c].job_id].q = <<>>
    /\ streams[c].keepalives < MaxKeepalives
    /\ streams' = [streams EXCEPT ![c] =
            [@ EXCEPT !.delivered = Append(@, Comment), !.taken = Append(@, 0),
                      !.keepalives = @ + 1]]
    /\ UNCHANGED <<reply, preview, JOBS, worker, sent, moodle, calls>>

\* one consumer of a stream
Stream(c) ==
    \/ \E job_id \in JobIds : Subscribe(c, job_id)
    \/ Get(c)
    \/ Check(c)
    \/ KeepAlive(c)

\* api_moodle_result: the rows the registry holds for the job
api_moodle_result(job_id) ==
    IF job_id \notin DOMAIN JOBS THEN NotFound ELSE JOBS[job_id].result_rows

\* the row lists the jobs that are streamed are started with
StreamBatches ==
    {<<RowNoEmail>>, <<RowNumber>>, <<RowExisting>>, <<RowCourses>>,
     <<RowNew, RowBlank>>, <<RowPadded, RowNoEmail>>}

Next ==
    \/ \E job_id \in JobIds, rows \in StreamBatches : Start(job_id, rows)
    \/ \E j \in JobIds : ProcessJob(j)
    \/ \E c \in Consumers : Stream(c)

Spec == Init /\ [][Next]_vars

----------------------------------------------------------------------------
(* Several consumers of one stream, with a remote that answers every call *)

\* the thread of one job when every request gets through and is granted
ProcessJobServed(j) ==
    \/ Prepare(j)
    \/ Probe(j, "list")
    \/ PutStage(j)
    \/ Prefetch(j, "list")
    \/ SkipRow(j)
    \/ ExistingUser(j, "ok")
    \/ CreateAttempt(j, "created")
    \/ EnrolSkip(j)
    \/ EnrolCourse(j, "list", "enrolled")
    \/ PutRowUpdate(j)
    \/ PutProgress(j)
    \/ SetResult(j)
    \/ SetDone(j)
    \/ PutDone(j)
    \/ PutSentinel(j)

StreamConsumers == {"c1", "c2"}

\* the row lists of the jobs several consumers read
ServedBatches ==
    {<<RowNumber>>, <<RowExisting>>, <<RowPadded>>, <<RowNoEmail, RowBlank>>}

NextStreams ==
    \/ \E job_id \in JobIds, rows \in ServedBatches : Start(job_id, rows)
    \/ \E j \in JobIds : ProcessJobServed(j)
    \/ \E c \in StreamConsumers : Stream(c)

\* a started thread is scheduled until it returns or dies; a consumer is a
\* client that may stop reading at any moment
SpecStreams ==
    Init /\ [][NextStreams]_vars /\ WF_vars(\E j \in JobIds : ProcessJobServed(j))

\* the same, with consumers that keep reading: a consumer whose q.get() can
\* return a message gets it in the end, and goes on to the check of line 458
SpecSubscribers ==
    /\ Init /\ [][NextStreams]_vars
    /\ WF_vars(\E j \in JobIds : ProcessJobServed(j))
    /\ \A c \in StreamConsumers : WF_vars(Get(c) \/ Check(c))

----------------------------------------------------------------------------
(* The registry: several jobs, and requests for job ids it does not hold *)

\* api_moodle_stream, lines 444-445
StreamUnknown(job_id) ==
    /\ job_id \notin DOMAIN JOBS
    /\ reply' = Reply("stream", 404, job_id, <<>>)
    /\ UNCHANGED <<preview, JOBS, worker, sent, streams, moodle, calls>>

\* api_moodle_result as a request
ResultRequest(job_id) ==
    /\ reply' = IF api_moodle_result(job_id) = NotFound
                THEN Reply("result", 404, job_id, <<>>)
                ELSE Reply("result", 200, job_id, api_moodle_result(job_id))
    /\ UNCHANGED <<preview, JOBS, worker, sent, streams, moodle, calls>>

\* the ids uuid4 hands out, each once
RegistryJobIds == {"j1", "j2"}

RegistryBatches == {<<RowNoEmail>>, <<RowExisting>>, <<RowPadded>>}

NextRegistry ==
    \/ \E job_id \in RegistryJobIds, rows \in RegistryBatches : Start(job_id, rows)
    \/ \E body_rows \in RefusedBodies : StartRejected(body_rows)
    \/ \E j \in RegistryJobIds : ProcessJobServed(j)
    \/ \E job_id \in RegistryJobIds : StreamUnknown(job_id)
    \/ \E job_id \in RegistryJobIds : ResultRequest(job_id)

SpecRegistry == Init /\ [][NextRegistry]_vars

----------------------------------------------------------------------------
(* make_usernames: the usernames of a preview *)

\* ch.isalnum(), of the characters used here
IsAlnum(c) == c \in LowerLetters \cup UpperLetters \cup Range(DigitChars)

\* ascii_slug: lower case, letters and digits only (no character used here
\* carries a diacritic)
ascii_slug(s) == SelectSeq(lower(s), IsAlnum)

\* " ".join(t.split()) of a stripped text
RECURSIVE CollapseSpaces(_)
CollapseSpaces(t) ==
    IF Len(t) < 2 THEN t
    ELSE IF t[1] \in Whitespace /\ t[2] \in Whitespace THEN CollapseSpaces(Tail(t))
    ELSE <<t[1]>> \o CollapseSpaces(Tail(t))

\* apply_replacements, of texts that hold neither "dr" nor "syed"
apply_replacements(text) == CollapseSpaces(strip(text))

\* clean_email: no blanks, no quotes around it, lower case
clean_email(s) ==
    lower(SelectSeq(s, LAMBDA c : c \notin Whitespace /\ c \notin {"\"", "'"}))

\* email.split("@")[0]
RECURSIVE LocalPart(_)
LocalPart(email) ==
    IF email = <<>> \/ Head(email) = "@" THEN <<>>
    ELSE <<Head(email)>> \o LocalPart(Tail(email))

\* lines 108-109
DerivedBase(r) ==
    LET source == ascii_slug(apply_replacements(r.FirstName \o r.LastName))
        local == ascii_slug(LocalPart(clean_email(r.EmailAddress)))
    IN  IF source # <<>> THEN source
        ELSE IF local # <<>> THEN local
        ELSE <<"u", "s", "e", "r">>

\* line 99: every cell of the row is empty once stripped
SkippedRow(r) ==
    strip(r.FirstName) = E /\ strip(r.LastName) = E /\ strip(r.EmailAddress) = E

\* a faulty loop that takes the counted suffix without looking at `used`
FirstUnused_unchecked(base, suffix, used) == suffix

\* lines 110-114: the suffix the while loop stops at
RECURSIVE FirstUnused(_, _, _)
FirstUnused(base, suffix, used) ==
    IF Candidate(base, suffix) \in used THEN FirstUnused(base, suffix + 1, used)
    ELSE suffix

\* a row of an uploaded sheet: first name, last name, email
Sheet(fn, ln, em) == [FirstName |-> fn, LastName |-> ln, EmailAddress |-> em]

\* "ab"; "ab" again, from capitals; "ab1"; "ab", from the email; a blank row;
\* a row that yields no letters at all ("user")
SheetRows ==
    {Sheet(<<"a">>, <<"b">>, E), Sheet(Name_a, <<" ">> \o Name_b, E),
     Sheet(<<"a", "b">>, <<"1">>, E), Sheet(E, E, <<"A", "b", "@", "x", ".", "y">>),
     Sheet(E, <<" ">>, E), Sheet(<<"-">>, E, <<"@">>)}

\* longest sheet given to make_usernames
MaxSheetRows == 3

\* make_usernames is entered with a sheet
InitPreview ==
    /\ JOBS = <<>>
    /\ worker = <<>>
    /\ sent = <<>>
    /\ streams = <<>>
    /\ moodle = InitMoodle
    /\ calls = <<>>
    /\ reply = NoReply
    /\ \E rows \in SeqsUpTo(SheetRows, MaxSheetRows) \ {<<>>} :
        preview = [NoPreview EXCEPT !.pc = "loop", !.rows = rows, !.i = 1]

\* line 99 for a blank row
SkipSheetRow ==
    /\ preview.pc = "loop"
    /\ SkippedRow(preview.rows[preview.i])
    /\ preview' = [preview EXCEPT !.i = @ + 1,
                                  !.pc = IF preview.i = Len(preview.rows)
                                         THEN "returned" ELSE "loop"]
    /\ UNCHANGED <<JOBS, worker, sent, streams, moodle, calls, reply>>

\* one turn of the loop of make_usernames, lines 98-122; out holds the
\* Username of each record of the list it returns, bases the base of each
MakeUsername ==
    /\ preview.pc = "loop"
    /\ ~SkippedRow(preview.rows[preview.i])
    /\ LET base == DerivedBase(preview.rows[preview.i])
           counted == IF base \in DOMAIN preview.counts THEN preview.counts[base] ELSE 0
           suffix == FirstUnused(base, counted, preview.used)
           candidate == Candidate(base, suffix)
       IN  preview' = [preview EXCEPT
                !.counts = [b \in DOMAIN @ \cup {base} |->
                                IF b = base THEN suffix ELSE @[b]],
                !.used = @ \cup {candidate},
                !.out = Append(@, candidate),
                !.bases = Append(@, base),
                !.i = @ + 1,
                !.pc = IF preview.i = Len(preview.rows) THEN "returned" ELSE "loop"]
    /\ UNCHANGED <<JOBS, worker, sent, streams, moodle, calls, reply>>

NextPreview == SkipSheetRow \/ MakeUsername

SpecPreview == InitPreview /\ [][NextPreview]_vars

----------------------------------------------------------------------------
(* Vocabulary of the properties *)

Started == DOMAIN worker

\* the positions of the events of one kind among the messages put on j's queue
EventsAt(j, event) == {k \in 1..Len(sent[j]) : sent[j][k].event = event}

\* the thread of j has ended, by returning or by an uncaught exception
Ended(j) == worker[j].pc \in {"finished", "crashed"}

\* row i of the batch of j fails validate_row (after line 289)
Invalid(j, i) == validate_row(PrepareRow(worker[j].rows_in[i])) # E

\* row i of j has left the loop body of line 320: its record is final
Terminal(j, i) ==
    /\ worker[j].pc \notin {"prepare", "reconcile", "stage", "prefetch", "crashed"}
    /\ \/ worker[j].idx > i
       \/ worker[j].idx = i /\ worker[j].pc \in {"row_update", "progress"}

\* the requests sent for row i of j
CallsFor(j, i) == {k \in 1..Len(calls) : calls[k].job = j /\ calls[k].row = i}
CallsOf(j, i, fn) == {k \in CallsFor(j, i) : calls[k].fn = fn}

\* the username matches [a-z0-9._-]{1,100}
WellFormedUsername(un) ==
    /\ Len(un) \in 1..100
    /\ \A k \in 1..Len(un) :
         un[k] \in {"a", "b", "n", "p", "s", "x", "y", "0", "1", "2", "3", "4",
                    "5", "6", "7", "8", "9", ".", "_", "-"}

----------------------------------------------------------------------------
(* Properties *)

\* C1: a consumer that is the only one subscribed to a job's stream has been
\* delivered the `done` event when its stream ends.  (The code sets the done
\* flag at line 384 before it puts the event at line 385.)
C1_DoneDeliveredBeforeStreamEnds ==
    \A c \in DOMAIN streams :
        (streams[c].pc = "ended" /\ DOMAIN streams = {c})
            => \E k \in 1..Len(streams[c].delivered) :
                    streams[c].delivered[k].event = "done"

\* C2, as stated: once the job is done, its worker has put as many row_update
\* events as the batch has non-blank rows, and the last progress event reports
\* 100%.
C2_RowUpdatePerNonBlankRow ==
    \A j \in Started :
        JOBS[j].done
            => /\ Cardinality(EventsAt(j, "row_update"))
                    = Cardinality({i \in 1..Len(worker[j].rows_in) :
                                        ~IsBlank(worker[j].rows_in[i])})
               /\ EventsAt(j, "progress") # {}
               /\ \A k \in EventsAt(j, "progress") :
                    (\A k2 \in EventsAt(j, "progress") : k2 <= k)
                        => sent[j][k].percent = 100

\* C2, amended: one row_update per submitted row, blank or not; never more
\* row_update events than rows; the last progress event of a done job is 100%.
C2_RowUpdatePerSubmittedRow ==
    \A j \in Started :
        /\ Cardinality(EventsAt(j, "row_update")) <= Len(worker[j].rows_in)
        /\ JOBS[j].done
            => /\ Cardinality(EventsAt(j, "row_update")) = Len(worker[j].rows_in)
               /\ EventsAt(j, "progress") # {}
               /\ \A k \in EventsAt(j, "progress") :
                    (\A k2 \in EventsAt(j, "progress") : k2 <= k)
                        => /\ sent[j][k].percent = 100
                           /\ sent[j][k].processed = Len(worker[j].rows_in)

\* a done job whose batch holds a blank row next to another row
C2_Witness ==
    \E j \in Started :
        /\ JOBS[j].done
        /\ Len(worker[j].rows_in) = 2
        /\ IsBlank(worker[j].rows_in[1])
        /\ ~IsBlank(worker[j].rows_in[2])

\* C3, for the rows that pass validation (a row that fails validation keeps the
\* username it was submitted with, empty or not): in the result of a job the
\* usernames are pairwise distinct and each matches [a-z0-9._-]{1,100}.
C3_UsernamesDistinctAndWellFormed ==
    \A j \in Started :
        JOBS[j].done
            => LET rows == JOBS[j].result_rows
                   valid == {i \in 1..Len(rows) : ~Invalid(j, i)}
               IN  /\ \A i1, i2 \in valid :
                        i1 # i2 => rows[i1].Username # rows[i2].Username
                   /\ \A i \in valid : WellFormedUsername(rows[i].Username)

\* C4: next_available_username never returns a candidate whose remote probe
\* failed.
C4_FailedProbeMeansExists ==
    \A j \in Started : worker[j].cand # None => worker[j].probe # "error"

\* C5: no failure raised while the worker handles a row ends the thread: the
\* thread of a job never dies on an uncaught exception, and a thread that has
\* ended has set done.
C5_RowFailureContained ==
    \A j \in Started :
        /\ worker[j].pc # "crashed"
        /\ Ended(j) => JOBS[j].done

\* a field of the submitted row is empty once stripped
MissingField(r) ==
    \E f \in {r.Username, r.FirstName, r.LastName, r.EmailAddress} : strip(f) = E

\* the rows of j that reach reconciliation and the prefetch
ValidRows(j) ==
    {i \in 1..Len(worker[j].rows_in) :
        ~Invalid(j, i) /\ worker[j].rows_in[i].Status = E}

\* C6: a row that fails validation carries the reason in its Status ("Missing
\* required field(s)" for a missing field), no request is sent for it, and the
\* email prefetch of its job asks for the emails of the valid rows only.
C6_InvalidRowNoRemoteCall ==
    \A j \in Started : \A i \in 1..Len(worker[j].rows_in) :
        Invalid(j, i) =>
            /\ CallsFor(j, i) = {}
            /\ \A k \in CallsFor(j, 0) :
                /\ Len(calls[k].what) = Cardinality(ValidRows(j))
                /\ \A e \in Range(calls[k].what) :
                        \E v \in ValidRows(j) : worker[j].rows_in[v].EmailAddress = e
            /\ worker[j].rows # <<>> =>
                /\ worker[j].rows[i].Status[1] = "Client-side validation: "
                /\ MissingField(worker[j].rows_in[i]) =>
                        worker[j].rows[i].Status
                            = <<"Client-side validation: ", "Missing required field(s)">>
                /\ ~MissingField(worker[j].rows_in[i]) =>
                        worker[j].rows[i].Status
                            = <<"Client-side validation: ", "Invalid email format">>
                /\ worker[j].rows[i].EnrolStatus = E
                /\ worker[j].rows[i].SuspendStatus = E

\* a finished job with a row without email beside a row requests were sent for
C6_Witness ==
    \E j \in Started :
        /\ worker[j].pc = "finished"
        /\ \E i, v \in 1..Len(worker[j].rows_in) :
            /\ Invalid(j, i)
            /\ worker[j].rows_in[i].EmailAddress = E
            /\ worker[j].rows_in[i].Username # E
            /\ CallsOf(j, v, WS_CREATE_USERS) # {}

\* the prefetched accounts with the email of row i of j, marked suspended
SuspendedMatches(j, i) ==
    {x \in worker[j].existing_by_email :
        /\ lower(x.email) = lower(worker[j].rows_in[i].EmailAddress)
        /\ x.suspended = 1}

\* what C7 says of a row whichever way the update-user call ends
ExistingRowHandled(j, i, x) ==
    /\ worker[j].rows[i].Status = <<"already exist">>
    /\ worker[j].rows[i].ExistingID = str(x.id)
    /\ Cardinality(CallsOf(j, i, WS_UPDATE_USERS)) = 1
    /\ \A k \in CallsOf(j, i, WS_UPDATE_USERS) : calls[k].what = <<x.id, 0>>
    /\ CallsOf(j, i, WS_CREATE_USERS) = {}
    /\ \A k \in CallsOf(j, i, WS_GET_USER_COURSES) : calls[k].what[1] = x.id
    /\ \A k \in CallsOf(j, i, WS_ENROL_MANUAL) : calls[k].what[2] = x.id

\* C7, as stated: the terminal record of a valid row whose email matches a
\* prefetched suspended account has status "already exist" and suspend status
\* "Unsuspended", after one update-user call and no create-user call, and its
\* enrolment requests use the account's id.
C7_SuspendedExistingUnsuspended ==
    \A j \in Started : \A i \in ValidRows(j) :
        Terminal(j, i) =>
            \A x \in SuspendedMatches(j, i) :
                /\ ExistingRowHandled(j, i, x)
                /\ worker[j].rows[i].SuspendStatus = <<"Unsuspended">>

\* C7, amended: the suspend status is "Unsuspended" when the update-user call
\* succeeds and the failure text of that call when it does not.
C7_SuspendedExistingReconciled ==
    \A j \in Started : \A i \in ValidRows(j) :
        Terminal(j, i) =>
            \A x \in SuspendedMatches(j, i) :
                /\ ExistingRowHandled(j, i, x)
                /\ \A k \in CallsOf(j, i, WS_UPDATE_USERS) :
                    /\ calls[k].resp = "ok" =>
                            worker[j].rows[i].SuspendStatus = <<"Unsuspended">>
                    /\ calls[k].resp # "ok" =>
                            worker[j].rows[i].SuspendStatus
                                \in {<<"Unsuspend failed: ", "errorcode", ": ", "message">>,
                                     <<"Unsuspend request error: ", "e">>}

\* a suspended account was matched, unsuspended, and enrolled with its id
C7_Witness ==
    \E j \in Started : \E i \in ValidRows(j) :
        /\ Terminal(j, i)
        /\ SuspendedMatches(j, i) # {}
        /\ worker[j].rows[i].SuspendStatus = <<"Unsuspended">>
        /\ \E k \in CallsOf(j, i, WS_ENROL_MANUAL) :
                calls[k].what[2] = 7 /\ calls[k].resp = "ok"

\* the four create-user requests of row i of j were sent and all failed
AllFourFailed(j, i) ==
    /\ Cardinality(CallsOf(j, i, WS_CREATE_USERS)) = 4
    /\ \A k \in CallsOf(j, i, WS_CREATE_USERS) : calls[k].resp = "failed"

\* the texts _attempt_create_single can return for a failed variant 4
Variant4Failures ==
    {<<"errorcode", ": ", "message", " [variant ", "4", "]">>,
     <<"Unexpected: ", "data", " [variant ", "4", "]">>,
     <<"Network error: ", "e", " [variant ", "4", "]">>}

\* C8: when all four creation variants of a row fail, its terminal status is
\* the failure detail of variant 4, its suspend status stays empty, and neither
\* a course lookup nor an enrol request is sent for it.
C8_AllVariantsFail ==
    \A j \in Started : \A i \in 1..Len(worker[j].rows_in) :
        (Terminal(j, i) /\ AllFourFailed(j, i)) =>
            /\ worker[j].rows[i].Status \in Variant4Failures
            /\ worker[j].rows[i].SuspendStatus = E
            /\ worker[j].rows[i].ExistingID = E
            /\ CallsOf(j, i, WS_GET_USER_COURSES) = {}
            /\ CallsOf(j, i, WS_ENROL_MANUAL) = {}
            /\ CallsOf(j, i, WS_UPDATE_USERS) = {}

\* a row with a course id whose four variants failed
C8_Witness ==
    \E j \in Started : \E i \in 1..Len(worker[j].rows_in) :
        /\ Terminal(j, i)
        /\ AllFourFailed(j, i)
        /\ worker[j].rows_in[i].CourseIDs # E

\* the calls of enrol_user: each starts with a course lookup
Lookups == {k \in 1..Len(calls) : calls[k].fn = WS_GET_USER_COURSES}

\* the call of enrol_user that starts at k goes on to the enrol request
IssuesEnrol(k) ==
    /\ k + 1 <= Len(calls)
    /\ calls[k + 1].fn = WS_ENROL_MANUAL
    /\ calls[k + 1].job = calls[k].job
    /\ calls[k + 1].row = calls[k].row

\* ... and that request enrolled the user
EnrolledBy(k) == IssuesEnrol(k) /\ calls[k + 1].resp = "ok"

\* an earlier call of enrol_user for the pair of the lookup at q enrolled the user
EnrolledBefore(q) ==
    \E p \in Lookups : p < q /\ calls[p].what = calls[q].what /\ EnrolledBy(p)

\* within one row, one enrol request per course id at most
OneEnrolPerCourse ==
    \A j \in Started : \A i \in 1..Len(worker[j].rows_in) :
        \A k1, k2 \in CallsOf(j, i, WS_ENROL_MANUAL) :
            k1 # k2 => calls[k1].what[3] # calls[k2].what[3]

RowUpdates(j) == SelectSeq(sent[j], LAMBDA m : m.event = "row_update")

\* a consumer of j's stream has been delivered the done event
DoneDelivered(j) ==
    \E c \in DOMAIN streams :
        /\ streams[c].job_id = j
        /\ \E k \in 1..Len(streams[c].delivered) : streams[c].delivered[k].event = "done"

\* result(j) is one record per submitted row, in row order, each the record
\* its row_update event carried
ResultIsFinal(j) ==
    LET result == api_moodle_result(j)
        updates == RowUpdates(j)
    IN  /\ j \in DOMAIN JOBS
        /\ Len(result) = Len(worker[j].rows_in)
        /\ Len(updates) = Len(result)
        /\ \A i \in 1..Len(result) :
            /\ updates[i].index = i - 1
            /\ updates[i].row = result[i]

\* C10: once the done flag is set, or a consumer has the done event, the
\* result is final; from then on it never changes and the job stays registered.
C10_ResultFinalOnceDone ==
    /\ [](\A j \in Started : (JOBS[j].done \/ DoneDelivered(j)) => ResultIsFinal(j))
    /\ [][\A j \in Started :
            JOBS[j].done =>
                /\ j \in DOMAIN JOBS'
                /\ JOBS'[j].done
                /\ JOBS'[j].result_rows = JOBS[j].result_rows]_vars

\* a consumer holds the done event of a job of two rows
C10_Witness ==
    \E j \in Started :
        /\ DoneDelivered(j)
        /\ JOBS[j].done
        /\ Len(JOBS[j].result_rows) = 2

\* the places in sent[j] of the messages consumer c took from the queue
TakenBy(c) == {streams[c].taken[k] : k \in 1..Len(streams[c].taken)} \ {0}

\* C11: of the consumers subscribed to one job, at most one is delivered any
\* message the worker put on the queue; what a consumer is delivered from the
\* queue is what the worker put, in the order the worker put it.
C11_EachMessageToOneConsumer ==
    /\ \A c \in DOMAIN streams :
        LET d == streams[c].delivered
            t == streams[c].taken
            j == streams[c].job_id
        IN  /\ Len(t) = Len(d)
            /\ \A k \in 1..Len(t) : t[k] # 0 => d[k] = sent[j][t[k]]
            /\ \A k1, k2 \in 1..Len(t) :
                (k1 < k2 /\ t[k1] # 0 /\ t[k2] # 0) => t[k1] < t[k2]
    /\ \A c1, c2 \in DOMAIN streams :
        (c1 # c2 /\ streams[c1].job_id = streams[c2].job_id)
            => TakenBy(c1) \cap TakenBy(c2) = {}

\* two consumers of one finished job have shared out all its messages
C11_Witness ==
    \E c1, c2 \in DOMAIN streams :
        /\ c1 # c2
        /\ streams[c1].job_id = streams[c2].job_id
        /\ worker[streams[c1].job_id].pc = "finished"
        /\ JOBS[streams[c1].job_id].q = <<>>
        /\ Cardinality(TakenBy(c1)) >= 2
        /\ Cardinality(TakenBy(c2)) >= 2
        /\ TakenBy(c1) \cup TakenBy(c2) = 1..Len(sent[streams[c1].job_id])

\* the job record api_moodle_start registers
FreshJob == [q |-> <<>>, done |-> FALSE, result_rows |-> <<>>]

\* this step is answered by a response of `endpoint` with status `code`
Answers(endpoint, code) ==
    reply' # reply /\ reply'.endpoint = endpoint /\ reply'.code = code

\* C12: a refused start, and a stream or result request for an id the registry
\* does not hold, change nothing; an accepted start adds one job under an id
\* that was not registered, not done, with no result and an empty queue of its
\* own, leaves the other jobs alone and returns the id before the thread has
\* done anything; nothing else changes the set of registered ids.
C12_StartAndLookupContract ==
    [][/\ Answers("start", 400)
            => UNCHANGED <<JOBS, worker, sent, streams, moodle, calls>>
       /\ Answers("start", 200)
            => /\ reply'.job_id \notin DOMAIN JOBS
               /\ DOMAIN JOBS' = DOMAIN JOBS \cup {reply'.job_id}
               /\ JOBS'[reply'.job_id] = FreshJob
               /\ \A j \in DOMAIN JOBS : JOBS'[j] = JOBS[j]
               /\ worker'[reply'.job_id].pc = "prepare"
               /\ worker'[reply'.job_id].rows = <<>>
               /\ sent'[reply'.job_id] = <<>>
               /\ UNCHANGED <<streams, moodle, calls>>
       /\ (Answers("stream", 404) \/ Answers("result", 404))
            => /\ reply'.job_id \notin DOMAIN JOBS
               /\ UNCHANGED <<JOBS, worker, sent, streams, moodle, calls>>
       /\ Answers("result", 200) => reply'.job_id \in DOMAIN JOBS
       /\ DOMAIN JOBS' # DOMAIN JOBS => Answers("start", 200)]_vars

\* one job is registered and has not run yet; a later start was refused
C12_Witness ==
    /\ Cardinality(DOMAIN JOBS) = 1
    /\ \A j \in DOMAIN JOBS : JOBS[j] = FreshJob /\ worker[j].pc = "prepare"
    /\ reply = Reply("start", 400, "-", <<>>)

\* the worker of j has set the done flag and put the done event
Completed(j) ==
    /\ j \in DOMAIN JOBS
    /\ JOBS[j].done
    /\ EventsAt(j, "done") # {}

\* C13: a job that was started is completed in the end, whatever its consumers
\* do and whether it has any.
C13_JobRunsToCompletion ==
    \A j \in JobIds : (j \in DOMAIN JOBS) ~> Completed(j)

\* what does hold: the thread of a started job runs until it has completed the
\* job or has died on the exception of line 289
C13_CompletesOrCrashes ==
    \A j \in JobIds : (j \in DOMAIN JOBS) ~> (Completed(j) \/ Running(j, "crashed"))

\* message k of a job of n rows is the one the order of C14 puts at place k
InPlace(m, k, n) ==
    CASE k = 1 -> m.event = "stage"
      [] k \in 2..(2 * n + 1) /\ k % 2 = 0 ->
            m.event = "row_update" /\ m.index = (k \div 2) - 1
      [] k \in 2..(2 * n + 1) /\ k % 2 = 1 ->
            m.event = "progress" /\ m.processed = (k - 1) \div 2 /\ m.total = n
      [] k = 2 * n + 2 -> m.event = "done" /\ m.total = n /\ m.percent = 100
      [] k = 2 * n + 3 -> m = Comment
      [] OTHER -> FALSE

\* the places consumer c took from the queue, in the order it took them
TakenSeq(c) == SelectSeq(streams[c].taken, LAMBDA t : t # 0)

\* C14: what the worker of a job of n rows has put on the queue is, at any
\* moment, the beginning of: stage; row_update i-1 and progress i of n, for
\* i = 1..n; done; the closing comment.  The percentages never decrease, a
\* thread that returned has put all of it, and a consumer that is alone on the
\* stream is delivered the messages from the first on, none skipped.
C14_EventOrder ==
    /\ \A j \in Started :
        LET n == Len(worker[j].rows_in)
        IN  /\ \A k \in 1..Len(sent[j]) : InPlace(sent[j][k], k, n)
            /\ \A k1, k2 \in EventsAt(j, "progress") :
                k1 < k2 => sent[j][k1].percent <= sent[j][k2].percent
            /\ worker[j].pc = "finished" => Len(sent[j]) = 2 * n + 3
    /\ \A c \in DOMAIN streams :
        DOMAIN streams = {c} =>
            /\ \A k \in 1..Len(TakenSeq(c)) : TakenSeq(c)[k] = k
            /\ \A k \in 1..Len(streams[c].taken) :
                streams[c].taken[k] # 0 =>
                    streams[c].delivered[k] = sent[streams[c].job_id][streams[c].taken[k]]

\* the only consumer of a finished job of two rows has been delivered all of
\* its messages
C14_Witness ==
    \E c \in DOMAIN streams :
        /\ DOMAIN streams = {c}
        /\ worker[streams[c].job_id].pc = "finished"
        /\ Len(worker[streams[c].job_id].rows_in) = 2
        /\ Len(TakenSeq(c)) = 7

\* base, base1, base2, ...
NthCandidate(base, s) == IF s = 0 THEN base ELSE base \o str(s)

\* the name is claimed by an earlier row of the batch, or the directory holds
\* an account whose username is the same but for case
NameTaken(j, name) ==
    \/ name \in worker[j].used_local
    \/ \E x \in moodle.users : lower(x.username) = lower(name)

\* C15: when every lookup of a call of next_available_username got through,
\* the name it returns is the first of base, base1, base2, ... that is neither
\* claimed in the batch nor in the directory (whatever the case), each earlier
\* one being claimed or in the directory; the row gets it and it is claimed.
C15_FirstFreeCandidate ==
    [][\A j \in DOMAIN worker :
        (worker[j].pc = "reconcile" /\ worker'[j].cand # None /\ worker'[j].lookups_ok)
            => LET i == worker[j].idx
                   base == worker[j].rows[i].Username
                   k == worker[j].suffix
               IN  /\ worker'[j].cand = NthCandidate(base, k)
                   /\ ~NameTaken(j, NthCandidate(base, k))
                   /\ \A s \in 0..(k - 1) : NameTaken(j, NthCandidate(base, s))
                   /\ worker'[j].rows[i].Username = worker'[j].cand
                   /\ worker'[j].used_local
                        = worker[j].used_local \cup {worker'[j].cand}]_vars

\* the second row of a batch is given "ab2": "Ab" is in the directory and the
\* first row claimed "ab1"
C15_Witness ==
    \E j \in Started :
        /\ worker[j].pc = "stage"
        /\ worker[j].lookups_ok
        /\ worker[j].cand = <<"a", "b", "2">>
        /\ worker[j].used_local = {<<"a", "b", "1">>, <<"a", "b", "2">>}

\* the username row i of j was submitted with, as line 289 leaves it
BaseUsername(j, i) == lower(worker[j].rows_in[i].Username)

\* the audit note that cites the adjusted name and the base
AuditNote(adjusted, base) ==
    <<" - ", "username adjusted to '">> \o adjusted \o <<"' (base '">> \o base
        \o <<"' exists)">>

EndsWith(text, tail) ==
    /\ Len(text) >= Len(tail)
    /\ SubSeq(text, Len(text) - Len(tail) + 1, Len(text)) = tail

\* the record of row i of j carries an audit note
CarriesNote(j, i) == "username adjusted to '" \in Range(worker[j].rows[i].Status)

\* the account of row i of j was created by this job
CreatedHere(j, i) ==
    /\ worker[j].rows[i].Status # E
    /\ worker[j].rows[i].Status[1] = "Created (id="

\* C16, as stated: the terminal record of a row whose username reconciliation
\* adjusted ends with the audit note citing the adjusted name and the base; the
\* record of a row whose username was not adjusted carries no note.
C16_AdjustedRowCarriesNote ==
    \A j \in Started : \A i \in ValidRows(j) :
        Terminal(j, i) =>
            IF worker[j].rows[i].Username # BaseUsername(j, i)
            THEN EndsWith(worker[j].rows[i].Status,
                          AuditNote(worker[j].rows[i].Username, BaseUsername(j, i)))
            ELSE ~CarriesNote(j, i)

\* C16, amended: the note is carried by the rows whose username was adjusted
\* and whose account this job created, and by no other row.
C16_CreatedAdjustedRowCarriesNote ==
    \A j \in Started : \A i \in ValidRows(j) :
        Terminal(j, i) =>
            IF worker[j].rows[i].Username # BaseUsername(j, i) /\ CreatedHere(j, i)
            THEN EndsWith(worker[j].rows[i].Status,
                          AuditNote(worker[j].rows[i].Username, BaseUsername(j, i)))
            ELSE ~CarriesNote(j, i)

\* the second of two rows submitted as "ab" was created as "ab2"
C16_Witness ==
    \E j \in Started :
        /\ Len(worker[j].rows_in) = 2
        /\ Terminal(j, 2)
        /\ BaseUsername(j, 1) = BaseUsername(j, 2)
        /\ worker[j].rows[2].Username = <<"a", "b", "2">>
        /\ CreatedHere(j, 2)
        /\ CarriesNote(j, 2)

\* the create-user requests of row i of j sent before request k
CreatesBefore(j, i, k) == {p \in CallsOf(j, i, WS_CREATE_USERS) : p < k}

\* the status names variant v as the one that created the account
NamesVariant(status, v) ==
    /\ status # E
    /\ status[1] = "Created (id="
    /\ \E p \in 1..(Len(status) - 1) :
        status[p] = ") via variant " /\ status[p + 1] = DigitChars[v + 1]

\* C17: the create-user requests of a row are those of variants 1, 2, 3, 4 in
\* this order, four at most, each sent only after all the earlier ones failed
\* (so none after one succeeded); they are sent only for valid rows whose email
\* was not found; the terminal status names the variant that succeeded.
C17_VariantsInOrder ==
    \A j \in Started : \A i \in 1..Len(worker[j].rows_in) :
        /\ Cardinality(CallsOf(j, i, WS_CREATE_USERS)) <= 4
        /\ CallsOf(j, i, WS_CREATE_USERS) # {} =>
            /\ i \in ValidRows(j)
            /\ CallsOf(j, i, WS_UPDATE_USERS) = {}
            /\ worker[j].rows[i].ExistingID = E
        /\ \A k \in CallsOf(j, i, WS_CREATE_USERS) :
            /\ calls[k].what = <<Cardinality(CreatesBefore(j, i, k)) + 1>>
            /\ \A p \in CreatesBefore(j, i, k) : calls[p].resp = "failed"
            /\ (Terminal(j, i) /\ calls[k].resp = "ok") =>
                    NamesVariant(worker[j].rows[i].Status, calls[k].what[1])

\* a row created by variant 3 after variants 1 and 2 failed
C17_Witness ==
    \E j \in Started : \E i \in 1..Len(worker[j].rows_in) :
        /\ Terminal(j, i)
        /\ Cardinality(CallsOf(j, i, WS_CREATE_USERS)) = 3
        /\ \E k \in CallsOf(j, i, WS_CREATE_USERS) :
            calls[k].resp = "ok" /\ calls[k].what = <<3>>

\* C18: in the terminal record of a row submitted with an empty Password, the
\* Password is non-empty only if this job created the row's account; invalid
\* rows, rows of existing accounts and rows whose four variants all failed have
\* an empty Password.
C18_PasswordOnlyWhenCreated ==
    \A j \in Started : \A i \in 1..Len(worker[j].rows_in) :
        (Terminal(j, i) /\ worker[j].rows_in[i].Password = E) =>
            /\ worker[j].rows[i].Password # E => CreatedHere(j, i)
            /\ (Invalid(j, i) \/ worker[j].rows[i].ExistingID # E \/ AllFourFailed(j, i))
                    => worker[j].rows[i].Password = E

\* the username probes of reconciliation, and the other requests made for a row
ProbesOf(j) ==
    {k \in 1..Len(calls) :
        calls[k].job = j /\ calls[k].fn = WS_GET_USERS_BY_FIELD /\ calls[k].row >= 1}
RowRequestsOf(j) ==
    {k \in 1..Len(calls) :
        /\ calls[k].job = j
        /\ calls[k].fn \in {WS_CREATE_USERS, WS_UPDATE_USERS, WS_GET_USER_COURSES,
                            WS_ENROL_MANUAL}}

\* reconciliation is over for j
Reconciled(j) == worker[j].pc \notin {"prepare", "reconcile", "crashed"}

\* C19: the username probes of a job are made for its valid rows only, row
\* after row, the probes of one row being those of one call (base, base1, ...);
\* once reconciliation is over every valid row has been probed; every probe
\* comes before every create, update, course-lookup and enrol request of the
\* job; and such a request for a row is sent only when the row_update of every
\* earlier row is on the queue.
C19_ReconcileFirstThenRowByRow ==
    \A j \in Started :
        /\ \A k \in ProbesOf(j) :
            /\ calls[k].row \in ValidRows(j)
            /\ calls[k].what
                = NthCandidate(BaseUsername(j, calls[k].row),
                               Cardinality({p \in ProbesOf(j) :
                                                p < k /\ calls[p].row = calls[k].row}))
            /\ \A p \in ProbesOf(j) : p < k => calls[p].row <= calls[k].row
            /\ \A q \in RowRequestsOf(j) : k < q
        /\ Reconciled(j) =>
            \A i \in ValidRows(j) : \E k \in ProbesOf(j) : calls[k].row = i
        /\ \A q \in RowRequestsOf(j) :
            \A i \in 1..(calls[q].row - 1) :
                \E m \in EventsAt(j, "row_update") : sent[j][m].index = i - 1

\* a finished job of two valid rows, both probed, both with a create request
C19_Witness ==
    \E j \in Started :
        /\ worker[j].pc = "finished"
        /\ ValidRows(j) = {1, 2}
        /\ \A i \in {1, 2} :
            /\ \E k \in ProbesOf(j) : calls[k].row = i
            /\ CallsOf(j, i, WS_CREATE_USERS) # {}

\* the suffixes, from 1 on, that the usernames before place p leave free for base
FreeSuffixes(base, p) ==
    {k \in 1..(p + 1) :
        \A q \in 1..(p - 1) : preview.out[q] # base \o str(k)}

\* the usernames make_usernames has given out so far are pairwise distinct
PreviewDistinct ==
    \A p, q \in 1..Len(preview.out) : p # q => preview.out[p] # preview.out[q]

\* C20, as stated: the first row with a given base keeps the bare base, each
\* later row with that base gets the base followed by the smallest suffix that
\* gives a name not yet used in the batch, and the usernames are distinct.
C20_FirstKeepsBaseOthersSmallestSuffix ==
    /\ \A p \in 1..Len(preview.out) :
        LET base == preview.bases[p]
        IN  IF \A q \in 1..(p - 1) : preview.bases[q] # base
            THEN preview.out[p] = base
            ELSE \E k \in FreeSuffixes(base, p) :
                    /\ preview.out[p] = base \o str(k)
                    /\ \A k2 \in FreeSuffixes(base, p) : k <= k2
    /\ PreviewDistinct

\* C20, amended: each row gets the first of base, base1, base2, ... that no
\* earlier row of the batch was given; so the first row with a base keeps the
\* bare base unless an earlier row, of another base, was given that very name.
C20_FirstUnusedCandidate ==
    /\ \A p \in 1..Len(preview.out) :
        LET base == preview.bases[p]
            earlier == {preview.out[q] : q \in 1..(p - 1)}
        IN  IF base \notin earlier
            THEN preview.out[p] = base
            ELSE \E k \in FreeSuffixes(base, p) :
                    /\ preview.out[p] = base \o str(k)
                    /\ \A k2 \in FreeSuffixes(base, p) : k <= k2
    /\ PreviewDistinct

\* "ab", "ab", then "ab1": the third row is the first of its base and finds its
\* name taken by the second
C20_Witness ==
    /\ preview.pc = "returned"
    /\ preview.bases = <<User_ab, User_ab, <<"a", "b", "1">>>>
    /\ preview.out = <<User_ab, <<"a", "b", "1">>, <<"a", "b", "1", "1">>>>

\* consumer c is subscribed to a job whose done flag is set
SubscribedToDone(c) ==
    /\ c \in DOMAIN streams
    /\ JOBS[streams[c].job_id].done

\* the stream of consumer c has ended
StreamEnded(c) == c \in DOMAIN streams /\ streams[c].pc = "ended"

\* C21: the stream of every consumer subscribed to a job ends once the job is
\* done, whenever it subscribed and whoever else reads the stream.
C21_EverySubscriberEnds ==
    \A c \in StreamConsumers : SubscribedToDone(c) ~> StreamEnded(c)

\* what does hold: a stream ends only from the check of line 458, right after
\* a message taken from the queue was yielded, with the done flag set and the
\* queue empty; never after a keep-alive
C21_EndsOnlyAfterMessage ==
    [][\A c \in DOMAIN streams :
        (streams[c].pc # "ended" /\ streams'[c].pc = "ended")
            => /\ streams[c].pc = "check"
               /\ streams[c].taken[Len(streams[c].taken)] # 0
               /\ JOBS[streams[c].job_id].done
               /\ JOBS[streams[c].job_id].q = <<>>
               /\ streams'[c].delivered = streams[c].delivered]_vars

\* the rows of j submitted with a Status that pass validation
FinishedRows(j) ==
    {i \in 1..Len(worker[j].rows_in) :
        worker[j].rows_in[i].Status # E /\ ~Invalid(j, i)}

\* what C22 says of row i of j, `record` being the record the row is to keep
FinishedRowSkipped(j, i, record) ==
    /\ CallsFor(j, i) = {}
    /\ \A k \in CallsFor(j, 0) : Len(calls[k].what) = Cardinality(ValidRows(j))
    /\ worker[j].rows # <<>> =>
        /\ worker[j].rows[i] = record
        /\ worker[j].used_local \subseteq
               {worker[j].rows[v].Username : v \in ValidRows(j)}
    /\ worker[j].rows = <<>> => worker[j].used_local = {}
    /\ JOBS[j].done =>
        /\ \E m \in EventsAt(j, "row_update") :
            sent[j][m].index = i - 1 /\ sent[j][m].row = record
        /\ \E m \in EventsAt(j, "progress") : sent[j][m].processed = i

\* C22, as stated: for a row submitted with a Status that passes validation no
\* request is sent, its email is not in the prefetch, its username is not
\* claimed, its record (Status, Username and Enrol Status among it) stays as
\* submitted, and a done job has put its row_update and its progress.
C22_FinishedRowUntouched ==
    \A j \in Started : \A i \in FinishedRows(j) :
        FinishedRowSkipped(j, i, worker[j].rows_in[i])

\* C22, amended: ... its record stays as submitted but for the Username, which
\* line 289 puts in lower case.
C22_FinishedRowOnlyLowercased ==
    \A j \in Started : \A i \in FinishedRows(j) :
        FinishedRowSkipped(j, i,
            [worker[j].rows_in[i] EXCEPT !.Username = lower(@)])

\* a done job whose first row was submitted finished as "Ab1" and whose second
\* row was created as "ab1": the name of the finished row was not claimed
C22_Witness ==
    \E j \in Started :
        /\ JOBS[j].done
        /\ FinishedRows(j) = {1}
        /\ Len(worker[j].rows_in) = 2
        /\ worker[j].rows[2].Username = <<"a", "b", "1">>
        /\ CreatedHere(j, 2)

====
